---- MODULE Spec2Model ----
(***************************************************************************)
(* x3f/denoise_opencv.cpp: the four extern "C" entry points that wrap the  *)
(* OpenCV kernels for a strided 16-bit buffer:                             *)
(*   denoise_nlm_opencv              (band-split denoise)                  *)
(*   denoise_quattro_highres_opencv  (simplified high-resolution denoise)  *)
(*   bicubic_upscale_opencv          (upscaler)                            *)
(*   inpaint_bad_pixels_opencv       (defect repair)                       *)
(*                                                                         *)
(* A call is a run of the state machine: Init holds the caller's buffers   *)
(* and arguments, every statement that calls a kernel is one step, and pc  *)
(* is the position inside the function.  The OpenCV kernels are operators: *)
(* resize, subtract, medianBlur, mixChannels, split and merge are computed *)
(* as the library computes them, and so is fastNlMeansDenoising, border,   *)
(* patch distance, distance buckets, exponential weights and rounding;     *)
(* inpaint leaves a synthesised sample open within the interval the        *)
(* library keeps it in.                                                    *)
(*                                                                         *)
(* Strengths are kept in eighths (the float h is the integer 8*h here), so *)
(* that h/8 and h/4 are exact.                                             *)
(***************************************************************************)
EXTENDS Integers, Sequences, FiniteSets, TLC

(***************************************************************************)
(* Bounds of the model.                                                    *)
(***************************************************************************)
MaxRows == 3
MaxCols == 3
MaxPad == 1
MaxSrc == 2
MaxUp == 4
MaxBlocks == 4

(***************************************************************************)
(* Program constants.                                                      *)
(***************************************************************************)
U16Max == 65535
S16Max == 32767
S16Min == -32768
TemplateWindow == 3
SearchWindowFull == 11
SearchWindowLow == 21
MedianKernel == 3
AreaShrink == 4

(***************************************************************************)
(* Integer helpers.                                                        *)
(***************************************************************************)
Abs(a) == IF a < 0 THEN 0 - a ELSE a

Min2(a, b) == IF a < b THEN a ELSE b

Max2(a, b) == IF a > b THEN a ELSE b

Clip(v, lo, hi) == Max2(lo, Min2(v, hi))

RECURSIVE SumTo(_, _, _)
SumTo(F(_), lo, hi) ==
  IF lo > hi THEN 0
  ELSE IF lo = hi THEN F(lo)
  ELSE IF lo + 1 = hi THEN F(lo) + F(hi)
  ELSE IF lo + 2 = hi THEN F(lo) + F(lo + 1) + F(hi)
  ELSE LET mid == (lo + hi) \div 2
       IN SumTo(F, lo, mid) + SumTo(F, mid + 1, hi)

\* cvRound(num/den), den > 0: to nearest, a tie to the even neighbour.
CvRound(num, den) ==
  LET q == num \div den
      r == num % den
  IN IF 2 * r < den THEN q
     ELSE IF 2 * r > den THEN q + 1
     ELSE IF q % 2 = 0 THEN q ELSE q + 1

\* saturate_cast<T>: the range of a sample of the given depth.
DepthMin(depth) == IF depth = "16S" THEN S16Min ELSE 0

DepthMax(depth) ==
  IF depth = "16S" THEN S16Max ELSE IF depth = "8U" THEN 255 ELSE U16Max

Saturate(v, depth) == Clip(v, DepthMin(depth), DepthMax(depth))

\* A function constructor is evaluated anew at each application; comparing it
\* tabulates it once.  The value is f either way.
Tabulated(f) == IF f = f THEN f ELSE f

(***************************************************************************)
(* cv::Mat: a header (rows, cols, channels, depth) and the samples.        *)
(***************************************************************************)
MkMat(r, c, k, d, F(_, _, _)) ==
  [rows |-> r, cols |-> c, ch |-> k, depth |-> d,
   px |-> [y \in 0..(r - 1), x \in 0..(c - 1), n \in 0..(k - 1) |-> F(y, x, n)]]

EmptyMat == MkMat(0, 0, 0, "16U", LAMBDA y, x, n: 0)

IsEmpty(m) == m.rows = 0 \/ m.cols = 0

\* The address of sample (y, x, c) in a strided buffer.
Offset(y, x, c, channels, stride) == y * stride + x * channels + c

\* The offsets a view of the given shape covers.
ViewOffsets(r, c, k, stride) ==
  { Offset(y, x, n, k, stride) : y \in 0..(r - 1), x \in 0..(c - 1), n \in 0..(k - 1) }

\* cv::Mat(rows, cols, type, data, step): a header over the caller's buffer.
MatOver(buf, r, c, k, d, stride) ==
  MkMat(r, c, k, d, LAMBDA y, x, n: buf[Offset(y, x, n, k, stride)])

(***************************************************************************)
(* cv::borderInterpolate.                                                  *)
(***************************************************************************)
RECURSIVE Reflect101(_, _)
Reflect101(p, len) ==
  IF len = 1 THEN 0
  ELSE IF p < 0 THEN Reflect101(0 - p, len)
  ELSE IF p >= len THEN Reflect101(2 * len - 2 - p, len)
  ELSE p

Replicate(p, len) == Clip(p, 0, len - 1)

(***************************************************************************)
(* Fixed-point arithmetic standing for the library's double: a value is a  *)
(* tuple of five limbs, the first the whole part and limb k + 1 the digit  *)
(* of weight Limb^-k.  Products are cut after the fourth digit, so a value *)
(* is known to about Limb^-4 = 2^-56, finer than the 2^-53 of a double.    *)
(***************************************************************************)
Limb == 2 ^ 14

HalfLimb == 2 ^ 7

FxOne == <<1, 0, 0, 0, 0>>

\* The first n base-HalfLimb digits of rem / den, for rem < den < 2^24.
RECURSIVE RatioDigits(_, _, _)
RatioDigits(rem, den, n) ==
  IF n = 0 THEN << >>
  ELSE <<(rem * HalfLimb) \div den>>
         \o RatioDigits((rem * HalfLimb) % den, den, n - 1)

\* num / den for 0 <= num and 0 < den < 2^24.
FxRatio(num, den) ==
  LET dig == RatioDigits(num % den, den, 8)
  IN <<num \div den,
       dig[1] * HalfLimb + dig[2], dig[3] * HalfLimb + dig[4],
       dig[5] * HalfLimb + dig[6], dig[7] * HalfLimb + dig[8]>>

\* a * b; c6 is the column after the last digit, kept for its carry.
FxMul(a, b) ==
  LET c6 == a[2] * b[5] + a[3] * b[4] + a[4] * b[3] + a[5] * b[2]
      c5 == a[1] * b[5] + a[2] * b[4] + a[3] * b[3] + a[4] * b[2] + a[5] * b[1]
              + (c6 \div Limb)
      c4 == a[1] * b[4] + a[2] * b[3] + a[3] * b[2] + a[4] * b[1] + (c5 \div Limb)
      c3 == a[1] * b[3] + a[2] * b[2] + a[3] * b[1] + (c4 \div Limb)
      c2 == a[1] * b[2] + a[2] * b[1] + (c3 \div Limb)
      c1 == a[1] * b[1] + (c2 \div Limb)
  IN <<c1, c2 % Limb, c3 % Limb, c4 % Limb, c5 % Limb>>

\* a / n for 0 < n < 2^17.
FxDivSmall(a, n) ==
  LET t2 == (a[1] % n) * Limb + a[2]
      t3 == (t2 % n) * Limb + a[3]
      t4 == (t3 % n) * Limb + a[4]
      t5 == (t4 % n) * Limb + a[5]
  IN <<a[1] \div n, t2 \div n, t3 \div n, t4 \div n, t5 \div n>>

\* a - b for a >= b; a negative column borrows through \div.
FxSub(a, b) ==
  LET d5 == a[5] - b[5]
      d4 == a[4] - b[4] + (d5 \div Limb)
      d3 == a[3] - b[3] + (d4 \div Limb)
      d2 == a[2] - b[2] + (d3 \div Limb)
      d1 == a[1] - b[1] + (d2 \div Limb)
  IN <<d1, d2 % Limb, d3 % Limb, d4 % Limb, d5 % Limb>>

\* 1 - r (1 - r/2 (1 - r/3 ( ... (1 - r/n)))): the series of exp(-r), which
\* for r < 1/2 is exact to 2^-57 with 15 terms.  Every partial value lies in
\* 0..1; looking at its whole part settles it before the next step starts.
TaylorTerms == 15

RECURSIVE ExpSeries(_, _, _)
ExpSeries(r, n, t) ==
  IF n = 0 \/ t[1] > 1 THEN t
  ELSE ExpSeries(r, n - 1, FxSub(FxOne, FxDivSmall(FxMul(r, t), n)))

RECURSIVE FxSquared(_, _)
FxSquared(a, times) ==
  IF times = 0 \/ a[1] > 1 THEN a
  ELSE FxSquared(FxMul(a, a), times - 1)

\* exp(-x) = exp(-x/16)^16, for 0 <= x < 8.
Halvings == 4

ExpNeg(x) ==
  FxSquared(ExpSeries(FxDivSmall(x, 2 ^ Halvings), TaylorTerms, FxOne), Halvings)

(***************************************************************************)
(* cv::fastNlMeansDenoising(src, dst, h, templateWindowSize,               *)
(* searchWindowSize, NORM_L1) on 16-bit samples.  The source is extended   *)
(* by BORDER_REFLECT_101, the distance of two patches is the sum of the    *)
(* absolute differences of all their samples, it is bucketed by a shift    *)
(* (16 is the first power of two >= 3*3), and each channel has its own     *)
(* weight for a bucket, calcWeight below.  The result is the weighted mean *)
(* over the search window, (sum + weights/2) / weights in whole numbers.   *)
(*                                                                         *)
(* A strength is held in eighths (8 h, h, 2 h for h, h/8, h/4), and h is a *)
(* whole number whose square and its multiple by cn are exact in a float.  *)
(*                                                                         *)
(* The extended image repeats with period 2 (len - 1) each way (1 for a    *)
(* single row or column), so the search window is summed by residue (u, v) *)
(* of the extended position, each counted as often as the window holds it. *)
(***************************************************************************)
RECURSIVE BinShift(_, _)
BinShift(value, p) == IF 2 ^ p < value THEN BinShift(value, p + 1) ELSE p

\* fixed_point_mult_ = min(INT64_MAX / (sws^2 * 65535), INT_MAX).
FixedPointMult == 2147483647

\* FixedPointMult / Limb^2 as a fixed-point value.
FxMult ==
  <<FixedPointMult \div (Limb * Limb), (FixedPointMult \div Limb) % Limb,
    FixedPointMult % Limb, 0, 0>>

\* calcWeight of DistAbs: w = exp(-dist^2 / (h^2 * cn)) with
\* dist = bucket * 2^shift / tws^2, a NaN (0/0, h = 0) taken as 1;
\* weight = cvRound(fixed_point_mult * w), and 0 if below a thousandth of
\* fixed_point_mult.  exp(-7) is below a thousandth.
FxRound(p) ==
  LET floor == (p[1] * Limb + p[2]) * Limb + p[3]
  IN IF \/ 2 * p[4] > Limb
        \/ 2 * p[4] = Limb /\ (p[5] > 0 \/ floor % 2 = 1)
     THEN floor + 1
     ELSE floor

WeightThreshold(weight) ==
  IF weight <= FixedPointMult \div 1000 THEN 0 ELSE weight

\* The weight for x = dist^2 / (h^2 * cn).
WeightAt(x) ==
  IF x[1] >= 7 THEN 0
  ELSE WeightThreshold(FxRound(FxMul(ExpNeg(x), FxMult)))

FxSquare(y) == FxMul(y, y)

calcWeight(bucket, strength, cn, tws) ==
  LET num == 8 * (2 ^ BinShift(tws * tws, 0)) * bucket
      den == tws * tws * strength
  IN IF strength = 0 THEN (IF bucket = 0 THEN FixedPointMult ELSE 0)
     ELSE IF num >= 8 * den THEN 0
     ELSE WeightAt(FxDivSmall(FxSquare(FxRatio(num, den)), cn))

ReflectPeriod(len) == IF len = 1 THEN 1 ELSE 2 * (len - 1)

\* How many of the positions p - sr .. p + sr have residue u modulo period.
InWindow(p, sr, u, period) ==
  ((p + sr - u) \div period) - ((p - sr - 1 - u) \div period)

\* The carry into column k of base-256 columns.
RECURSIVE CarryInto(_, _)
CarryInto(cols, k) ==
  IF k = 0 THEN 0 ELSE (cols[k - 1] + CarryInto(cols, k - 1)) \div 256

\* Whether sum over k of e[k] * 256^k, k in 0..n-1, is >= 0.
RECURSIVE NonNegative(_, _, _, _)
NonNegative(e, k, n, carry) ==
  IF k = n THEN carry >= 0
  ELSE NonNegative(e, k + 1, n, (e[k] + carry) \div 256)

\* The largest q in lo..hi with q * den <= num, both given by base-256
\* columns, den's being digits.
RECURSIVE Quotient(_, _, _, _)
Quotient(num, den, lo, hi) ==
  IF lo = hi THEN lo
  ELSE LET mid == (lo + hi + 1) \div 2
       IN IF NonNegative([k \in DOMAIN num |-> num[k] - mid * den[k]],
                         0, Cardinality(DOMAIN num), 0)
          THEN Quotient(num, den, mid, hi)
          ELSE Quotient(num, den, lo, mid - 1)

FastNlMeansDenoising(src, hs, tws, sws) ==
  LET tr == tws \div 2
      sr == sws \div 2
      shift == BinShift(tws * tws, 0)
      py == ReflectPeriod(src.rows)
      px == ReflectPeriod(src.cols)
      cells == tws * tws * src.ch
      pixels == src.rows * src.cols
      \* the extended image at residue (u, v); u and v may be any integers
      Ext(u, v, n) ==
        src.px[Reflect101(u % py, src.rows), Reflect101(v % px, src.cols), n]
      \* the patch around residue q = u * px + v, sample by sample
      patch == Tabulated(
                 [q \in 0..(py * px - 1) |->
                    [k \in 0..(cells - 1) |->
                       Ext((q \div px) + (k \div (tws * src.ch)) - tr,
                           (q % px) + ((k \div src.ch) % tws) - tr,
                           k % src.ch)]])
      Dist(p, q) == SumTo(LAMBDA k: Abs(patch[p][k] - patch[q][k]), 0, cells - 1)
      \* per pixel i = y * cols + x: the residues its search window holds,
      \* how many times each, and the bucket of each
      inRows == Tabulated(
                  [y \in 0..(src.rows - 1) |->
                     [u \in 0..(py - 1) |-> InWindow(y, sr, u, py)]])
      inCols == Tabulated(
                  [x \in 0..(src.cols - 1) |->
                     [v \in 0..(px - 1) |-> InWindow(x, sr, v, px)]])
      Times(i, q) == inRows[i \div src.cols][q \div px] * inCols[i % src.cols][q % px]
      near == Tabulated(
                [i \in 0..(pixels - 1) |->
                   SelectSeq([j \in 1..(py * px) |-> j - 1],
                             LAMBDA q: Times(i, q) > 0)])
      TimesOf(i, row) == [j \in DOMAIN row |-> Times(i, row[j])]
      times == Tabulated([i \in 0..(pixels - 1) |-> TimesOf(i, near[i])])
      BucketsOf(p, row) ==
        [j \in DOMAIN row |-> Dist(p, row[j]) \div (2 ^ shift)]
      bucket == Tabulated(
                  [i \in 0..(pixels - 1) |->
                     BucketsOf((i \div src.cols) * px + (i % src.cols),
                               near[i])])
      \* almost_dist2weight, per strength, as base-256 digits
      Buckets(table) ==
        UNION { {table[i][j] : j \in DOMAIN table[i]} : i \in DOMAIN table }
      Digits(w) == [a \in 0..3 |-> (w \div (256 ^ a)) % 256]
      almost_dist2weight ==
        Tabulated(
          [s \in {hs[n] : n \in 1..src.ch} |->
             [b \in Buckets(bucket) |-> Digits(calcWeight(b, s, src.ch, tws))]])
      \* per channel, pixel and residue: the digits of the weight, and the
      \* sample at the residue
      Looked(table, row) == [j \in DOMAIN row |-> table[row[j]]]
      weight == Tabulated(
                  [n \in 0..(src.ch - 1) |->
                     [i \in 0..(pixels - 1) |->
                        Looked(almost_dist2weight[hs[n + 1]], bucket[i])]])
      Centres(row, n) ==
        [j \in DOMAIN row |-> patch[row[j]][((tr * tws) + tr) * src.ch + n]]
      centre == Tabulated(
                  [n \in 0..(src.ch - 1) |->
                     [i \in 0..(pixels - 1) |-> Centres(near[i], n)]])
      \* estimation and weights_sum in base-256 columns
      Estimation(w, v, t) ==
        <<SumTo(LAMBDA j: t[j] * w[j][0] * (v[j] % 256), 1, Len(t)),
          SumTo(LAMBDA j: t[j] * (w[j][1] * (v[j] % 256)
                                   + w[j][0] * (v[j] \div 256)), 1, Len(t)),
          SumTo(LAMBDA j: t[j] * (w[j][2] * (v[j] % 256)
                                   + w[j][1] * (v[j] \div 256)), 1, Len(t)),
          SumTo(LAMBDA j: t[j] * (w[j][3] * (v[j] % 256)
                                   + w[j][2] * (v[j] \div 256)), 1, Len(t)),
          SumTo(LAMBDA j: t[j] * w[j][3] * (v[j] \div 256), 1, Len(t))>>
      WeightsSum(w, t) ==
        Tabulated([k \in 0..3 |-> SumTo(LAMBDA j: t[j] * w[j][k], 1, Len(t))])
      Column(columns, k) == IF k \in DOMAIN columns THEN columns[k] ELSE 0
      Doubled(ws) == Tabulated([k \in 0..8 |-> 2 * Column(ws, k)])
      Carried(columns) ==
        Tabulated([k \in 0..8 |-> (columns[k] + CarryInto(columns, k)) % 256])
      \* (estimation + weights_sum / 2) / weights_sum
      Mean(es, ws) ==
        Quotient([k \in 0..8 |-> 2 * Column(es, k + 1) + Column(ws, k)],
                 Carried(Doubled(ws)), 0, U16Max)
      Pixel(w, v, t) == Mean(Estimation(w, v, t), WeightsSum(w, t))
  IN MkMat(src.rows, src.cols, src.ch, src.depth,
           LAMBDA y, x, n:
             Saturate(Pixel(weight[n][y * src.cols + x],
                            centre[n][y * src.cols + x],
                            times[y * src.cols + x]), src.depth))

(***************************************************************************)
(* cv::mixChannels with one pair {from, to}.                               *)
(***************************************************************************)
\* fromTo = {c, 0} into a single-channel Mat.
ExtractChannel(src, c) ==
  MkMat(src.rows, src.cols, 1, src.depth, LAMBDA y, x, n: src.px[y, x, c])

\* fromTo = {0, c} into an existing multi-channel Mat.
InsertChannel(dstMat, plane, c) ==
  MkMat(dstMat.rows, dstMat.cols, dstMat.ch, dstMat.depth,
        LAMBDA y, x, n: IF n = c THEN plane.px[y, x, 0] ELSE dstMat.px[y, x, n])

(***************************************************************************)
(* cv::medianBlur(src, dst, ksize): the median of the ksize x ksize        *)
(* neighbourhood, BORDER_REPLICATE.                                        *)
(***************************************************************************)
MedianOf(vals) ==
  LET n == Len(vals)
      Below(v) == Cardinality({i \in 1..n : vals[i] < v})
      UpTo(v) == Cardinality({i \in 1..n : vals[i] <= v})
  IN CHOOSE v \in {vals[i] : i \in 1..n} :
       Below(v) <= n \div 2 /\ UpTo(v) > n \div 2

MedianBlur(src, ksize) ==
  LET kr == ksize \div 2
      Window(y, x, n) ==
        [i \in 1..(ksize * ksize) |->
           src.px[Replicate(y + ((i - 1) \div ksize) - kr, src.rows),
                  Replicate(x + ((i - 1) % ksize) - kr, src.cols), n]]
  IN MkMat(src.rows, src.cols, src.ch, src.depth,
           LAMBDA y, x, n: MedianOf(Window(y, x, n)))

(***************************************************************************)
(* cv::resize(src, dst, Size(), 1/shrink, 1/shrink, INTER_AREA): the size  *)
(* is cvRound(n / shrink) each way; a destination sample is the mean of    *)
(* the part of its shrink x shrink block that lies inside the source.      *)
(***************************************************************************)
ShrunkSize(n, shrink) == CvRound(n, shrink)

ResizeArea(src, shrink) ==
  LET Rows(dy) == (shrink * dy)..Min2(shrink * dy + shrink - 1, src.rows - 1)
      Cols(dx) == (shrink * dx)..Min2(shrink * dx + shrink - 1, src.cols - 1)
      Total(dy, dx, n) ==
        SumTo(LAMBDA Y:
          SumTo(LAMBDA X: src.px[Y, X, n],
                shrink * dx, Min2(shrink * dx + shrink - 1, src.cols - 1)),
          shrink * dy, Min2(shrink * dy + shrink - 1, src.rows - 1))
      Count(dy, dx) == Cardinality(Rows(dy)) * Cardinality(Cols(dx))
  IN MkMat(ShrunkSize(src.rows, shrink), ShrunkSize(src.cols, shrink),
           src.ch, src.depth,
           LAMBDA dy, dx, n:
             Saturate(CvRound(Total(dy, dx, n), Count(dy, dx)), src.depth))

(***************************************************************************)
(* cv::resize(src, dst, dsize, 0, 0, INTER_CUBIC).  Destination index d of *)
(* size dn maps to the source coordinate (d + 1/2) * sn/dn - 1/2; the four *)
(* taps around it are weighted by the cubic kernel with A = -3/4 and taken *)
(* from the replicated border.  Coordinates and weights are kept as exact  *)
(* fractions in lowest terms: frac = t / q, weights = CubicTaps(t, q) /     *)
(* (4 q^3).  Equal sizes copy.                                             *)
(***************************************************************************)
RECURSIVE Gcd(_, _)
Gcd(a, b) == IF b = 0 THEN a ELSE Gcd(b, a % b)

CubicTaps(t, q) ==
  LET u == t + q
      v == q - t
      n0 == ((0 - 3 * u + 15 * q) * u - 24 * q * q) * u + 12 * q * q * q
      n1 == (5 * t - 9 * q) * t * t + 4 * q * q * q
      n2 == (5 * v - 9 * q) * v * v + 4 * q * q * q
  IN <<n0, n1, n2, 4 * q * q * q - n0 - n1 - n2>>

ResizeCubic(src, drows, dcols) ==
  LET gy == Gcd(src.rows, drows)
      gx == Gcd(src.cols, dcols)
      qy == 2 * (drows \div gy)
      qx == 2 * (dcols \div gx)
      Dy == 4 * qy * qy * qy
      Dx == 4 * qx * qx * qx
      Py(d) == (2 * d + 1) * (src.rows \div gy) - (drows \div gy)
      Px(d) == (2 * d + 1) * (src.cols \div gx) - (dcols \div gx)
      wy == Tabulated([d \in 0..(drows - 1) |-> CubicTaps(Py(d) % qy, qy)])
      wx == Tabulated([d \in 0..(dcols - 1) |-> CubicTaps(Px(d) % qx, qx)])
      sy(d, k) == Replicate((Py(d) \div qy) - 1 + k, src.rows)
      sx(d, k) == Replicate((Px(d) \div qx) - 1 + k, src.cols)
      \* the horizontal pass of source row Y for destination column d, over Dx
      Hor(Y, d, n) == SumTo(LAMBDA k: wx[d][k + 1] * src.px[Y, sx(d, k), n], 0, 3)
      hor == Tabulated(
               [i \in 0..(src.rows * dcols * src.ch - 1) |->
                  Hor(i \div (dcols * src.ch), (i \div src.ch) % dcols,
                      i % src.ch)])
      Value(dy, dx, n) ==
        LET row(k) == hor[(sy(dy, k) * dcols + dx) * src.ch + n]
            s1 == SumTo(LAMBDA k: wy[dy][k + 1] * (row(k) \div Dx), 0, 3)
            s2 == SumTo(LAMBDA k: wy[dy][k + 1] * (row(k) % Dx), 0, 3)
            whole == s1 + (s2 \div Dx)
            e == s2 % Dx
            q == whole \div Dy
            r == whole % Dy
            \* the sign of (r + e/Dx) / Dy - 1/2
            half == (2 * r - Dy) * Dx + 2 * e
        IN IF half < 0 THEN q
           ELSE IF half > 0 THEN q + 1
           ELSE IF q % 2 = 0 THEN q ELSE q + 1
  IN IF drows = src.rows /\ dcols = src.cols
     THEN MkMat(drows, dcols, src.ch, src.depth, LAMBDA y, x, n: src.px[y, x, n])
     ELSE MkMat(drows, dcols, src.ch, src.depth,
                LAMBDA y, x, n: Saturate(Value(y, x, n), src.depth))

(***************************************************************************)
(* cv::subtract(a, b, dst, noArray(), dtype): a - b, saturated to dtype.   *)
(***************************************************************************)
Subtract(a, b, depth) ==
  MkMat(a.rows, a.cols, a.ch, depth,
        LAMBDA y, x, n: Saturate(a.px[y, x, n] - b.px[y, x, n], depth))

(***************************************************************************)
(* cv::split and cv::merge.                                                *)
(***************************************************************************)
Split(img) == [k \in 1..img.ch |-> ExtractChannel(img, k - 1)]

Merge(mats) ==
  MkMat(mats[1].rows, mats[1].cols, Len(mats), mats[1].depth,
        LAMBDA y, x, n: mats[n + 1].px[y, x, 0])

(***************************************************************************)
(* cv::inpaint(src, mask, dst, radius, flags): dst is a copy of src in     *)
(* which the samples under a non-zero mask are synthesised, in the order   *)
(* of a march inwards from the known samples that border them; a sample    *)
(* under a zero mask is never written.  With every sample masked there is  *)
(* no border to march from and dst is src.                                 *)
(*                                                                         *)
(* INPAINT_NS gives a masked sample a mean, with positive weights, of the  *)
(* samples within the radius that are known or already synthesised, so it  *)
(* lies between the least and the largest known sample within the radius   *)
(* of a masked one.  INPAINT_TELEA adds to that mean a term of size at     *)
(* most sqrt 2 and a half before rounding, so each synthesised sample may  *)
(* pass the ones it is made from by 1 downwards and by 2 upwards.  Where   *)
(* in that interval the value falls is left open.                          *)
(***************************************************************************)
Masked(maskMat) ==
  { p \in (0..(maskMat.rows - 1)) \X (0..(maskMat.cols - 1)) :
      maskMat.px[p[1], p[2], 0] # 0 }

SetMin(S) == CHOOSE v \in S : \A w \in S : v <= w

SetMax(S) == CHOOSE v \in S : \A w \in S : v >= w

\* range = cvRound(inpaintRange), kept within 1..100
InpaintRange(radius) == Clip(radius, 1, 100)

\* A faulty variant of InpaintFill: dst starts cleared, not as a copy of src.
InpaintFillCleared(src, holes, f) ==
  MkMat(src.rows, src.cols, 1, src.depth,
        LAMBDA y, x, n: IF <<y, x>> \in holes THEN f[<<y, x>>] ELSE 0)

\* dst for the synthesised values f of the masked samples.
InpaintFill(src, holes, f) ==
  MkMat(src.rows, src.cols, 1, src.depth,
        LAMBDA y, x, n: IF <<y, x>> \in holes THEN f[<<y, x>>] ELSE src.px[y, x, 0])

InpaintOutcomes(src, maskMat, radius, flags) ==
  LET holes == Masked(maskMat)
      range == InpaintRange(radius)
      intact == ((0..(src.rows - 1)) \X (0..(src.cols - 1))) \ holes
      known == { src.px[p[1], p[2], 0] :
                   p \in { q \in intact :
                             \E g \in holes :
                               (q[1] - g[1]) * (q[1] - g[1])
                                 + (q[2] - g[2]) * (q[2] - g[2]) <= range * range } }
      steps == IF flags = "INPAINT_TELEA" THEN Cardinality(holes) ELSE 0
      fill == Saturate(SetMin(known) - steps, src.depth)
                ..Saturate(SetMax(known) + 2 * steps, src.depth)
  IN IF holes = {} \/ intact = {}
     THEN { src }
     ELSE { InpaintFill(src, holes, f) : f \in [holes -> fill] }

\* cv::INPAINT_NS = 0, cv::INPAINT_TELEA = 1
InpaintMethod(method) == IF method = 0 THEN "INPAINT_NS" ELSE "INPAINT_TELEA"

(***************************************************************************)
(* The state of one call.                                                  *)
(*   op                 the entry point called                             *)
(*   rows, cols, channels, rowStride, h, data                              *)
(*                      its arguments (bicubic_upscale_opencv: srcRows,    *)
(*                      srcCols, channels, srcStride, src)                 *)
(*   dstRows, dstCols, dstStride, dst    bicubic_upscale_opencv only       *)
(*   mask, maskStride, inpaintRadius, method  inpaint_bad_pixels_opencv    *)
(*   out                the local result Mat (out, dst or result in the    *)
(*                      source, by branch)                                 *)
(*   sub, sub_dn, sub_res, res           locals of the low-frequency step  *)
(*   channelMats, c     locals of the per-channel inpaint loop             *)
(*   pc                 the position in the function                       *)
(*   data0, dst0        the buffers as they were at the call               *)
(*   log                the kernel calls made, each with its arguments,    *)
(*                      its input and its result                           *)
(*   rd, wr             offsets of data read and written so far            *)
(*   dstWr              offsets of dst written so far                      *)
(***************************************************************************)
VARIABLES op, rows, cols, channels, rowStride, h, data,
          dstRows, dstCols, dstStride, dst,
          mask, maskStride, inpaintRadius, method,
          out, sub, sub_dn, sub_res, res, channelMats, c,
          pc, data0, dst0, log, rd, wr, dstWr

args == <<op, rows, cols, channels, rowStride, h,
          dstRows, dstCols, dstStride, mask, maskStride, inpaintRadius, method,
          data0, dst0>>

lowLocals == <<sub, sub_dn, sub_res, res>>

inpaintLocals == <<channelMats, c>>

vars == <<args, data, dst, out, lowLocals, inpaintLocals, pc, log, rd, wr, dstWr>>

(***************************************************************************)
(* The inputs of the model: buffers filled from a few patterns, with a     *)
(* mark in the padding of every row.                                       *)
(***************************************************************************)
PadMark == U16Max - 21845

Patterns == {"ramp", "edge"}

\* The sample (y, x, n) of a pattern.
\*   ramp:  small steps everywhere
\*   edge:  two levels, a speckle at (1, 1) and a gradient per row
\*   flat:  two neighbouring values per channel, in a chequer
\*   block: the first AreaShrink columns bright in channel 2 and mid-grey in
\*          channels 0 and 1, the rest dark in channel 2 and a chequer of
\*          black and white in channels 0 and 1
Sample(p, y, x, n) ==
  CASE p = "ramp" -> (5 * y + 3 * x + 2 * n) % 7
    [] p = "edge" -> IF y = 1 /\ x = 1 THEN 4095 - n
                     ELSE (IF 2 * x < 5 THEN 40 ELSE 3000) + 100 * n + y
    [] p = "flat" -> 40 + 100 * n + ((x + y) % 2)
    [] OTHER -> IF x < AreaShrink
                THEN (IF n = 2 THEN U16Max ELSE (U16Max + 1) \div 2)
                ELSE (IF n = 2 \/ (x + y) % 2 = 1 THEN 0 ELSE U16Max)

InitBuffer(r, cl, k, stride, p) ==
  [o \in 0..(r * stride - 1) |->
     IF o % stride < cl * k
     THEN Sample(p, o \div stride, (o % stride) \div k, (o % stride) % k)
     ELSE PadMark]

\* The float h, as a whole number.
Strengths == {0, 2000}

\* A strength that flattens the quarter-size image of the block pattern,
\* which is AreaShrink rows by AreaShrink * MaxBlocks columns.
StrongStrength == 32 * SetMax(Strengths)


\* Row paddings: none, and the largest.
Pads == {0, MaxPad}

\* Image heights and widths: every small one.
Heights == 1..MaxRows

Widths == 1..MaxCols

MaskKinds == {"none", "one", "two", "all"}

MaskSample(m, r, cl, y, x) ==
  CASE m = "none" -> 0
    [] m = "one" -> IF y = r \div 2 /\ x = cl \div 2 THEN 255 ELSE 0
    [] m = "two" -> IF y = 0 /\ x = 0 THEN 1
                    ELSE IF y = r - 1 /\ x = cl - 1 THEN 255 ELSE 0
    [] OTHER -> 255

InitMask(r, cl, stride, m) ==
  [o \in 0..(r * stride - 1) |->
     IF o % stride < cl THEN MaskSample(m, r, cl, o \div stride, o % stride)
     ELSE 170]

NoBuffer == [o \in {} |-> 0]

InitLocals ==
  /\ data0 = data
  /\ dst0 = dst
  /\ out = EmptyMat
  /\ sub = EmptyMat
  /\ sub_dn = EmptyMat
  /\ sub_res = EmptyMat
  /\ res = EmptyMat
  /\ channelMats = <<>>
  /\ c = 0
  /\ pc = "start"
  /\ log = <<>>
  /\ rd = {}
  /\ wr = {}
  /\ dstWr = {}

NoUpscaleArgs ==
  /\ dstRows = 0
  /\ dstCols = 0
  /\ dstStride = 0
  /\ dst = NoBuffer

NoInpaintArgs ==
  /\ mask = NoBuffer
  /\ maskStride = 0
  /\ inpaintRadius = 0
  /\ method = 0

InitDenoise ==
  /\ op \in {"denoise_nlm_opencv", "denoise_quattro_highres_opencv"}
  /\ rows \in Heights
  /\ cols \in Widths
  /\ channels \in {1, 3}
  /\ \E pad \in Pads : rowStride = cols * channels + pad
  /\ \E p \in Patterns : data = InitBuffer(rows, cols, channels, rowStride, p)
  /\ h \in Strengths
  /\ NoUpscaleArgs
  /\ NoInpaintArgs

InitBlock ==
  /\ op = "denoise_nlm_opencv"
  /\ rows = AreaShrink
  /\ cols = AreaShrink * MaxBlocks
  /\ channels = 3
  /\ rowStride = cols * channels
  /\ data = InitBuffer(rows, cols, channels, rowStride, "block")
  /\ h \in {SetMax(Strengths), StrongStrength}
  /\ NoUpscaleArgs
  /\ NoInpaintArgs

InitUpscale ==
  /\ op = "bicubic_upscale_opencv"
  /\ rows \in 1..MaxSrc
  /\ cols \in 1..MaxSrc
  /\ channels \in {1, 3}
  /\ \E pad \in Pads : rowStride = cols * channels + pad
  /\ data = InitBuffer(rows, cols, channels, rowStride, "edge")
  /\ h = 0
  /\ dstRows \in 1..MaxUp
  /\ dstCols \in 1..MaxUp
  /\ \E pad \in Pads : dstStride = dstCols * channels + pad
  /\ dst = [o \in 0..(dstRows * dstStride - 1) |->
              IF o % dstStride < dstCols * channels THEN 0 ELSE PadMark]
  /\ NoInpaintArgs

InitInpaint ==
  /\ op = "inpaint_bad_pixels_opencv"
  /\ rows \in Heights
  /\ cols \in 1..MaxCols
  /\ channels \in {1, 3}
  /\ \E pad \in Pads :
       /\ rowStride = cols * channels + pad
       /\ maskStride = cols + MaxPad - pad
  /\ data = InitBuffer(rows, cols, channels, rowStride, "flat")
  /\ h = 0
  /\ NoUpscaleArgs
  /\ inpaintRadius = 3
  /\ \E m \in MaskKinds :
       /\ mask = InitMask(rows, cols, maskStride, m)
       /\ method \in (IF m = "two" /\ channels = 3 THEN {0} ELSE {0, 1})

Init == (InitDenoise \/ InitBlock \/ InitUpscale \/ InitInpaint) /\ InitLocals

(***************************************************************************)
(* Faulty variants of definitions below: each property further down is     *)
(* also run against one of them, to see that it tells the code from a      *)
(* plausible slip.                                                         *)
(***************************************************************************)
\* The copy-back loop moving one sample too many per row.
RowSamplesAndOne(cl, k) == cl * k + 1

\* The small image denoised with the strengths of the full-size one.
h2_undivided(s) == <<0, 8 * s, 8 * s>>

\* The median written into channel 0 instead of channel 2.
set_V_luma == <<0, 0>>

\* The high-resolution strengths without the doubled third one.
h_values_equal(s) == <<0, 8 * s, 8 * s>>

\* The enlargement sized from the source instead of the destination.
UpscaleSizeOfSource == <<rows, cols>>

\* The mask header built without the mask's row stride.
MaskMatPacked == MatOver(mask, rows, cols, 1, "8U", cols)

(***************************************************************************)
(* Pieces shared by the entry points.                                      *)
(***************************************************************************)
\* cv::Mat img(rows, cols, CV_16UC(channels), data, step)
Img == MatOver(data, rows, cols, channels, "16U", rowStride)

\* Sample j of row y of a continuous Mat: m.ptr<uint16_t>(y)[j].  Past the end
\* of the Mat (which no loop of the source reaches) it reads as 0.
RowSample(m, y, j) ==
  LET width == m.cols * m.ch
      at == y * width + j
  IN IF at < m.rows * width
     THEN m.px[at \div width, (at % width) \div m.ch, at % m.ch]
     ELSE 0

\* The number of samples one memcpy of the copy-back loop moves.
RowSamples(cl, k) == cl * k

\* for (y < rows) memcpy(data + y * rowStride, m.ptr<uint16_t>(y), n samples)
CopiedOffsets(r, n, stride) ==
  { y * stride + j : y \in 0..(r - 1), j \in 0..(n - 1) }

CopyBack(buf, m, r, n, stride) ==
  [o \in DOMAIN buf |->
     LET y == Min2(r - 1, o \div stride)
         j == o - y * stride
     IN IF j < n THEN RowSample(m, y, j) ELSE buf[o]]

\* A kernel writing its result through a header over the caller's buffer.
StoreThrough(buf, m, stride) ==
  [o \in DOMAIN buf |->
     IF o \in ViewOffsets(m.rows, m.cols, m.ch, stride)
     THEN m.px[o \div stride, (o % stride) \div m.ch, (o % stride) % m.ch]
     ELSE buf[o]]

NlmCall(src, result, hs, sws) ==
  [prim |-> "fastNlMeansDenoising", src |-> src, dst |-> result, h |-> hs,
   templateWindowSize |-> TemplateWindow, searchWindowSize |-> sws,
   normType |-> "NORM_L1"]

(***************************************************************************)
(* denoise_nlm_opencv, channels == 3.                                      *)
(***************************************************************************)
\* float h1[3] = {0.0f, h, h}, in eighths
h1(s) == <<0, 8 * s, 8 * s>>

\* float h2[3] = {0.0f, h/8, h/4}, in eighths
h2(s) == <<0, s, 2 * s>>

\* int get_V[2] = {2, 0}; int set_V[2] = {0, 2}
get_V == <<2, 0>>

set_V == <<0, 2>>

NlmPrimary ==
  /\ op = "denoise_nlm_opencv"
  /\ pc = "start"
  /\ channels = 3
  /\ LET r == FastNlMeansDenoising(Img, h1(h), TemplateWindow, SearchWindowFull)
     IN /\ out' = r
        /\ log' = Append(log, NlmCall(Img, r, h1(h), SearchWindowFull))
  /\ rd' = rd \cup ViewOffsets(rows, cols, channels, rowStride)
  /\ pc' = "median"
  /\ UNCHANGED <<args, data, dst, lowLocals, inpaintLocals, wr, dstWr>>

NlmMedianV ==
  /\ op = "denoise_nlm_opencv"
  /\ pc = "median"
  /\ LET V == ExtractChannel(out, get_V[1])
         blurred == MedianBlur(V, MedianKernel)
         back == InsertChannel(out, blurred, set_V[2])
     IN /\ out' = back
        /\ log' = log \o
             << [prim |-> "mixChannels", src |-> out, dst |-> V, fromTo |-> get_V],
                [prim |-> "medianBlur", src |-> V, dst |-> blurred,
                 ksize |-> MedianKernel],
                [prim |-> "mixChannels", src |-> blurred, dst |-> back,
                 fromTo |-> set_V] >>
  /\ pc' = "shrink"
  /\ UNCHANGED <<args, data, dst, lowLocals, inpaintLocals, rd, wr, dstWr>>

\* cv::resize(out, sub, cv::Size(), 1.0/4, 1.0/4, cv::INTER_AREA): the computed
\* size must not be empty (CV_Assert(!dsize.empty())); the exception leaves
\* the extern "C" function.
NlmShrink ==
  /\ op = "denoise_nlm_opencv"
  /\ pc = "shrink"
  /\ IF ShrunkSize(out.rows, AreaShrink) = 0 \/ ShrunkSize(out.cols, AreaShrink) = 0
     THEN /\ pc' = "error"
          /\ log' = Append(log, [prim |-> "resize", src |-> out, dst |-> EmptyMat,
                                 shrink |-> AreaShrink, interpolation |-> "INTER_AREA"])
          /\ UNCHANGED sub
     ELSE LET r == ResizeArea(out, AreaShrink)
          IN /\ sub' = r
             /\ log' = Append(log, [prim |-> "resize", src |-> out, dst |-> r,
                                    shrink |-> AreaShrink,
                                    interpolation |-> "INTER_AREA"])
             /\ pc' = "lowdenoise"
  /\ UNCHANGED <<args, data, dst, out, sub_dn, sub_res, res, inpaintLocals,
                 rd, wr, dstWr>>

NlmLowDenoise ==
  /\ op = "denoise_nlm_opencv"
  /\ pc = "lowdenoise"
  /\ LET r == FastNlMeansDenoising(sub, h2(h), TemplateWindow, SearchWindowLow)
     IN /\ sub_dn' = r
        /\ log' = Append(log, NlmCall(sub, r, h2(h), SearchWindowLow))
  /\ pc' = "residual"
  /\ UNCHANGED <<args, data, dst, out, sub, sub_res, res, inpaintLocals,
                 rd, wr, dstWr>>

\* cv::subtract(sub, sub_dn, sub_res, cv::noArray(), CV_16S)
NlmResidual ==
  /\ op = "denoise_nlm_opencv"
  /\ pc = "residual"
  /\ LET r == Subtract(sub, sub_dn, "16S")
     IN /\ sub_res' = r
        /\ log' = Append(log, [prim |-> "subtract", src |-> <<sub, sub_dn>>,
                               dst |-> r, dtype |-> "16S"])
  /\ pc' = "upsample"
  /\ UNCHANGED <<args, data, dst, out, sub, sub_dn, res, inpaintLocals,
                 rd, wr, dstWr>>

\* cv::resize(sub_res, res, out.size(), 0.0, 0.0, cv::INTER_CUBIC)
NlmUpsample ==
  /\ op = "denoise_nlm_opencv"
  /\ pc = "upsample"
  /\ LET r == ResizeCubic(sub_res, out.rows, out.cols)
     IN /\ res' = r
        /\ log' = Append(log, [prim |-> "resize", src |-> sub_res, dst |-> r,
                               dsize |-> <<out.rows, out.cols>>,
                               interpolation |-> "INTER_CUBIC"])
  /\ pc' = "correct"
  /\ UNCHANGED <<args, data, dst, out, sub, sub_dn, sub_res, inpaintLocals,
                 rd, wr, dstWr>>

\* cv::subtract(out, res, out, cv::noArray(), CV_16U)
NlmCorrect ==
  /\ op = "denoise_nlm_opencv"
  /\ pc = "correct"
  /\ LET r == Subtract(out, res, "16U")
     IN /\ out' = r
        /\ log' = Append(log, [prim |-> "subtract", src |-> <<out, res>>,
                               dst |-> r, dtype |-> "16U"])
  /\ pc' = "copy"
  /\ UNCHANGED <<args, data, dst, lowLocals, inpaintLocals, rd, wr, dstWr>>

(***************************************************************************)
(* denoise_nlm_opencv, channels != 3.                                      *)
(***************************************************************************)
\* std::vector<float> h_vector(1, h), in eighths
h_vector(s) == <<8 * s>>

NlmSingle ==
  /\ op = "denoise_nlm_opencv"
  /\ pc = "start"
  /\ channels # 3
  /\ LET r == FastNlMeansDenoising(Img, h_vector(h), TemplateWindow, SearchWindowFull)
     IN /\ out' = r
        /\ log' = Append(log, NlmCall(Img, r, h_vector(h), SearchWindowFull))
  /\ rd' = rd \cup ViewOffsets(rows, cols, channels, rowStride)
  /\ pc' = "copy"
  /\ UNCHANGED <<args, data, dst, lowLocals, inpaintLocals, wr, dstWr>>

\* The copy-back loop of either branch.
NlmCopyBack ==
  /\ op = "denoise_nlm_opencv"
  /\ pc = "copy"
  /\ data' = CopyBack(data, out, rows, RowSamples(cols, channels), rowStride)
  /\ wr' = wr \cup CopiedOffsets(rows, RowSamples(cols, channels), rowStride)
  /\ log' = Append(log, [prim |-> "memcpy", src |-> out])
  /\ pc' = "done"
  /\ UNCHANGED <<args, dst, out, lowLocals, inpaintLocals, rd, dstWr>>

(***************************************************************************)
(* denoise_quattro_highres_opencv.                                         *)
(***************************************************************************)
\* float h_values[3] = {0.0f, h, h*2}, in eighths
h_values(s) == <<0, 8 * s, 16 * s>>

\* channels == 3: h_vec = h_values; else: h_vector(1, h)
QuattroStrengths(k, s) == IF k = 3 THEN h_values(s) ELSE <<8 * s>>

QuattroDenoise ==
  /\ op = "denoise_quattro_highres_opencv"
  /\ pc = "start"
  /\ LET hs == QuattroStrengths(channels, h)
         r == FastNlMeansDenoising(Img, hs, TemplateWindow, SearchWindowFull)
     IN /\ out' = r
        /\ log' = Append(log, NlmCall(Img, r, hs, SearchWindowFull))
  /\ rd' = rd \cup ViewOffsets(rows, cols, channels, rowStride)
  /\ pc' = "copy"
  /\ UNCHANGED <<args, data, dst, lowLocals, inpaintLocals, wr, dstWr>>

QuattroCopyBack ==
  /\ op = "denoise_quattro_highres_opencv"
  /\ pc = "copy"
  /\ data' = CopyBack(data, out, rows, RowSamples(cols, channels), rowStride)
  /\ wr' = wr \cup CopiedOffsets(rows, RowSamples(cols, channels), rowStride)
  /\ log' = Append(log, [prim |-> "memcpy", src |-> out])
  /\ pc' = "done"
  /\ UNCHANGED <<args, dst, out, lowLocals, inpaintLocals, rd, dstWr>>

(***************************************************************************)
(* bicubic_upscale_opencv: srcMat and dstMat are headers over the caller's *)
(* buffers; dstMat already has the size and type resize asks for, so the   *)
(* result is written through it.                                           *)
(***************************************************************************)
SrcMat == MatOver(data, rows, cols, channels, "16U", rowStride)

\* dstMat.size(): the dsize handed to cv::resize
UpscaleSize == <<dstRows, dstCols>>

BicubicUpscale ==
  /\ op = "bicubic_upscale_opencv"
  /\ pc = "start"
  /\ LET r == ResizeCubic(SrcMat, UpscaleSize[1], UpscaleSize[2])
     IN /\ dst' = StoreThrough(dst, r, dstStride)
        /\ dstWr' = dstWr \cup ViewOffsets(r.rows, r.cols, r.ch, dstStride)
        /\ log' = Append(log, [prim |-> "resize", src |-> SrcMat, dst |-> r,
                               dsize |-> UpscaleSize,
                               interpolation |-> "INTER_CUBIC"])
  /\ rd' = rd \cup ViewOffsets(rows, cols, channels, rowStride)
  /\ pc' = "done"
  /\ UNCHANGED <<args, data, out, lowLocals, inpaintLocals, wr>>

(***************************************************************************)
(* inpaint_bad_pixels_opencv.                                              *)
(***************************************************************************)
\* cv::Mat maskMat(rows, cols, CV_8U, mask, maskStride)
MaskMat == MatOver(mask, rows, cols, 1, "8U", maskStride)

InpaintCall(k, src, result) ==
  [prim |-> "inpaint", channel |-> k, src |-> src, mask |-> MaskMat,
   dst |-> result, inpaintRadius |-> inpaintRadius,
   flags |-> InpaintMethod(method)]

\* channels == 1
InpaintSingle ==
  /\ op = "inpaint_bad_pixels_opencv"
  /\ pc = "start"
  /\ channels = 1
  /\ \E r \in InpaintOutcomes(Img, MaskMat, inpaintRadius, InpaintMethod(method)) :
       /\ out' = r
       /\ log' = Append(log, InpaintCall(0, Img, r))
  /\ rd' = rd \cup ViewOffsets(rows, cols, channels, rowStride)
  /\ pc' = "copy"
  /\ UNCHANGED <<args, data, dst, lowLocals, inpaintLocals, wr, dstWr>>

\* cv::split(img, channelMats)
InpaintSplit ==
  /\ op = "inpaint_bad_pixels_opencv"
  /\ pc = "start"
  /\ channels # 1
  /\ channelMats' = Split(Img)
  /\ c' = 0
  /\ rd' = rd \cup ViewOffsets(rows, cols, channels, rowStride)
  /\ log' = Append(log, [prim |-> "split", src |-> Img, dst |-> Split(Img)])
  /\ pc' = "loop"
  /\ UNCHANGED <<args, data, dst, out, lowLocals, wr, dstWr>>

\* One turn of for (c < channels): inpaint channelMats[c] in place.
InpaintChannel ==
  /\ op = "inpaint_bad_pixels_opencv"
  /\ pc = "loop"
  /\ c < channels
  /\ \E r \in InpaintOutcomes(channelMats[c + 1], MaskMat, inpaintRadius,
                              InpaintMethod(method)) :
       /\ channelMats' = [channelMats EXCEPT ![c + 1] = r]
       /\ log' = Append(log, InpaintCall(c, channelMats[c + 1], r))
  /\ c' = c + 1
  /\ UNCHANGED <<args, data, dst, out, lowLocals, pc, rd, wr, dstWr>>

\* cv::merge(channelMats, result)
InpaintMerge ==
  /\ op = "inpaint_bad_pixels_opencv"
  /\ pc = "loop"
  /\ c >= channels
  /\ out' = Merge(channelMats)
  /\ log' = Append(log, [prim |-> "merge", src |-> channelMats,
                         dst |-> Merge(channelMats)])
  /\ pc' = "copy"
  /\ UNCHANGED <<args, data, dst, lowLocals, inpaintLocals, rd, wr, dstWr>>

InpaintCopyBack ==
  /\ op = "inpaint_bad_pixels_opencv"
  /\ pc = "copy"
  /\ data' = CopyBack(data, out, rows, RowSamples(cols, channels), rowStride)
  /\ wr' = wr \cup CopiedOffsets(rows, RowSamples(cols, channels), rowStride)
  /\ log' = Append(log, [prim |-> "memcpy", src |-> out])
  /\ pc' = "done"
  /\ UNCHANGED <<args, dst, out, lowLocals, inpaintLocals, rd, dstWr>>

Next ==
  \/ NlmPrimary
  \/ NlmMedianV
  \/ NlmShrink
  \/ NlmLowDenoise
  \/ NlmResidual
  \/ NlmUpsample
  \/ NlmCorrect
  \/ NlmSingle
  \/ NlmCopyBack
  \/ QuattroDenoise
  \/ QuattroCopyBack
  \/ BicubicUpscale
  \/ InpaintSingle
  \/ InpaintSplit
  \/ InpaintChannel
  \/ InpaintMerge
  \/ InpaintCopyBack

Spec == Init /\ [][Next]_vars

(***************************************************************************)
(* Vocabulary of the properties.                                           *)
(***************************************************************************)
\* The offsets of the logical samples of a rows x columns x channels view.
LogicalOffsets(r, cl, k, stride) ==
  { y * stride + x * k + n : y \in 0..(r - 1), x \in 0..(cl - 1), n \in 0..(k - 1) }

\* The pixel positions of the image.
Pixels == (0..(rows - 1)) \X (0..(cols - 1))

\* The image the caller handed in.
Img0 == MatOver(data0, rows, cols, channels, "16U", rowStride)

\* Sample (y, x, n) of the caller's image buffer, now and at the call.
DataAt(y, x, n) == data[y * rowStride + x * channels + n]

Data0At(y, x, n) == data0[y * rowStride + x * channels + n]

\* The mask value of pixel (y, x).
MaskAt(y, x) == mask[y * maskStride + x]

Denoisers == {"denoise_nlm_opencv", "denoise_quattro_highres_opencv"}

(***************************************************************************)
(* C1.  Whatever the entry point and the row stride, only the logical      *)
(* samples y*rowStride + x*channels + c of the caller's buffer are read or *)
(* written: every padding sample keeps its value, and nothing at or past   *)
(* rows*rowStride is touched.  For bicubic_upscale_opencv the same holds   *)
(* of the destination buffer with dstStride.                               *)
(***************************************************************************)
C1_OnlyLogicalSamplesTouched ==
  /\ DOMAIN data = DOMAIN data0
  /\ wr \subseteq LogicalOffsets(rows, cols, channels, rowStride)
  /\ rd \subseteq LogicalOffsets(rows, cols, channels, rowStride)
  /\ \A o \in wr \cup rd : o < rows * rowStride
  /\ \A o \in DOMAIN data :
       o \notin LogicalOffsets(rows, cols, channels, rowStride) => data[o] = data0[o]
  /\ DOMAIN dst = DOMAIN dst0
  /\ dstWr \subseteq LogicalOffsets(dstRows, dstCols, channels, dstStride)
  /\ \A o \in dstWr : o < dstRows * dstStride
  /\ \A o \in DOMAIN dst :
       o \notin LogicalOffsets(dstRows, dstCols, channels, dstStride) => dst[o] = dst0[o]

\* A padded three-channel image has been through the whole band-split
\* pipeline and its logical samples have changed.
C1_Witness ==
  /\ op = "denoise_nlm_opencv"
  /\ channels = 3
  /\ rowStride > cols * channels
  /\ pc = "done"
  /\ wr = LogicalOffsets(rows, cols, channels, rowStride)
  /\ data # data0

(***************************************************************************)
(* C2.  For a three-channel image denoise_nlm_opencv calls the kernels in  *)
(* this order, each on the result of the one before: the patch denoise of  *)
(* the input with strengths {0, h, h}, windows 3 and 11, L1; the 3x3       *)
(* median of channel 2 of that result, put back into channel 2 with        *)
(* channels 0 and 1 untouched; the area shrink to a quarter; the patch     *)
(* denoise of the small image with strengths {0, h/8, h/4}, windows 3 and  *)
(* 21, L1; the signed difference small minus denoised; its bicubic         *)
(* enlargement to the full size; the subtraction of that from the median   *)
(* stage's result.  The caller's buffer is untouched until all of them     *)
(* have run and is then overwritten once with the last result.             *)
(* Strengths are in eighths.                                               *)
(***************************************************************************)
C2_StagesInOrder ==
  (op = "denoise_nlm_opencv" /\ channels = 3) =>
    LET n == Len(log)
    IN /\ n <= 10
       /\ n >= 1 =>
            /\ log[1].prim = "fastNlMeansDenoising"
            /\ log[1].src = Img0
            /\ log[1].h = <<0, 8 * h, 8 * h>>
            /\ log[1].templateWindowSize = 3
            /\ log[1].searchWindowSize = 11
            /\ log[1].normType = "NORM_L1"
       /\ n >= 2 =>
            /\ n >= 4
            /\ log[2].prim = "mixChannels"
            /\ log[2].src = log[1].dst
            /\ log[2].dst = ExtractChannel(log[1].dst, 2)
            /\ log[3].prim = "medianBlur"
            /\ log[3].src = log[2].dst
            /\ log[3].ksize = 3
            /\ log[4].prim = "mixChannels"
            /\ log[4].src = log[3].dst
            /\ ExtractChannel(log[4].dst, 2) = log[3].dst
            /\ ExtractChannel(log[4].dst, 0) = ExtractChannel(log[1].dst, 0)
            /\ ExtractChannel(log[4].dst, 1) = ExtractChannel(log[1].dst, 1)
       /\ n >= 5 =>
            /\ log[5].prim = "resize"
            /\ log[5].interpolation = "INTER_AREA"
            /\ log[5].shrink = 4
            /\ log[5].src = log[4].dst
       /\ n >= 6 =>
            /\ Abs(4 * log[5].dst.rows - rows) <= 2
            /\ Abs(4 * log[5].dst.cols - cols) <= 2
            /\ log[6].prim = "fastNlMeansDenoising"
            /\ log[6].src = log[5].dst
            /\ log[6].h = <<0, h, 2 * h>>
            /\ log[6].templateWindowSize = 3
            /\ log[6].searchWindowSize = 21
            /\ log[6].normType = "NORM_L1"
       /\ n >= 7 =>
            /\ log[7].prim = "subtract"
            /\ log[7].src = <<log[5].dst, log[6].dst>>
            /\ log[7].dtype = "16S"
       /\ n >= 8 =>
            /\ log[8].prim = "resize"
            /\ log[8].interpolation = "INTER_CUBIC"
            /\ log[8].src = log[7].dst
            /\ log[8].dsize = <<rows, cols>>
            /\ log[8].dst.rows = rows
            /\ log[8].dst.cols = cols
       /\ n >= 9 =>
            /\ log[9].prim = "subtract"
            /\ log[9].src = <<log[4].dst, log[8].dst>>
            /\ log[9].dtype = "16U"
       /\ n < 10 => data = data0 /\ wr = {} /\ pc # "done"
       /\ n = 10 =>
            /\ log[10].prim = "memcpy"
            /\ log[10].src = log[9].dst
            /\ pc = "done"
            /\ \A p \in Pixels : \A k \in 0..2 :
                 DataAt(p[1], p[2], k) = log[9].dst.px[p[1], p[2], k]

\* All ten kernel calls of a three-channel band-split run with a non-zero
\* strength have been made.
C2_Witness ==
  /\ op = "denoise_nlm_opencv"
  /\ channels = 3
  /\ h > 0
  /\ pc = "done"
  /\ Len(log) = 10
  /\ log[6].dst # log[6].src

(***************************************************************************)
(* C3.  inpaint_bad_pixels_opencv never alters an unmasked pixel: for one  *)
(* or three channels, any mask and either method, a sample of the buffer   *)
(* can differ from its value at the call only if it is a logical sample of *)
(* a pixel whose mask value is not 0.  So an all-zero mask leaves the      *)
(* whole buffer as it was, and a single masked pixel confines the change   *)
(* to that pixel.                                                          *)
(***************************************************************************)
MaskedPixels == { p \in Pixels : MaskAt(p[1], p[2]) # 0 }

MaskedOffsets ==
  { p[1] * rowStride + p[2] * channels + n : p \in MaskedPixels, n \in 0..(channels - 1) }

C3_UnmaskedUntouched ==
  op = "inpaint_bad_pixels_opencv" =>
    /\ DOMAIN data = DOMAIN data0
    /\ \A o \in DOMAIN data : data[o] # data0[o] => o \in MaskedOffsets
    /\ \A p \in Pixels : \A n \in 0..(channels - 1) :
         MaskAt(p[1], p[2]) = 0 => DataAt(p[1], p[2], n) = Data0At(p[1], p[2], n)
    /\ MaskedPixels = {} => data = data0

\* A three-channel image with exactly one masked pixel among several has
\* been repaired, and that pixel has changed.
C3_Witness ==
  /\ op = "inpaint_bad_pixels_opencv"
  /\ channels = 3
  /\ pc = "done"
  /\ Cardinality(MaskedPixels) = 1
  /\ Cardinality(Pixels) > 1
  /\ \E p \in MaskedPixels : DataAt(p[1], p[2], 0) # Data0At(p[1], p[2], 0)

(***************************************************************************)
(* C4.  For a three-channel image inpaint_bad_pixels_opencv runs the       *)
(* inpainting kernel once per channel, in channel order, each time on that *)
(* channel's plane of the input with the one mask, radius and method of    *)
(* the call; the buffer written back holds at (y, x, c) the c-th kernel    *)
(* result's value at (y, x).                                               *)
(***************************************************************************)
IsInpaint(e) == e.prim = "inpaint"

InpaintCalls == SelectSeq(log, IsInpaint)

C4_EveryChannelSameMask ==
  (op = "inpaint_bad_pixels_opencv" /\ channels = 3) =>
    /\ Len(InpaintCalls) <= channels
    /\ \A i \in 1..Len(InpaintCalls) :
         /\ InpaintCalls[i].channel = i - 1
         /\ InpaintCalls[i].src = ExtractChannel(Img0, i - 1)
         /\ InpaintCalls[i].mask.rows = rows
         /\ InpaintCalls[i].mask.cols = cols
         /\ \A p \in Pixels :
              InpaintCalls[i].mask.px[p[1], p[2], 0] = MaskAt(p[1], p[2])
         /\ InpaintCalls[i].inpaintRadius = inpaintRadius
         /\ InpaintCalls[i].flags =
              (IF method = 0 THEN "INPAINT_NS" ELSE "INPAINT_TELEA")
    /\ pc \in {"copy", "done"} =>
         /\ Len(InpaintCalls) = channels
         /\ \A p \in Pixels : \A n \in 0..(channels - 1) :
              out.px[p[1], p[2], n] = InpaintCalls[n + 1].dst.px[p[1], p[2], 0]
    /\ pc = "done" =>
         \A p \in Pixels : \A n \in 0..(channels - 1) :
           DataAt(p[1], p[2], n) = InpaintCalls[n + 1].dst.px[p[1], p[2], 0]

\* A three-channel image with a padded mask of two masked pixels has been
\* repaired and written back, and the three kernel results differ.
C4_Witness ==
  /\ op = "inpaint_bad_pixels_opencv"
  /\ channels = 3
  /\ maskStride > cols
  /\ rows > 1
  /\ pc = "done"
  /\ Cardinality(MaskedPixels) = 2
  /\ Len(InpaintCalls) = 3
  /\ InpaintCalls[1].dst # InpaintCalls[2].dst
  /\ InpaintCalls[2].dst # InpaintCalls[3].dst
  /\ data # data0

(***************************************************************************)
(* C5.  bicubic_upscale_opencv fills the caller's destination at the size  *)
(* the destination declares: the kernel is asked for dstRows x dstCols     *)
(* whatever the source size, every logical sample of dst (addressed with   *)
(* dstStride) is written with the kernel's value for it, no other buffer   *)
(* receives the result, the padding of dst and the whole of the source     *)
(* stay as they were, for any two strides.  An enlargement to the source's *)
(* own size is a copy.                                                     *)
(***************************************************************************)
C5_DestinationFilled ==
  (op = "bicubic_upscale_opencv" /\ pc = "done") =>
    /\ Len(log) = 1
    /\ log[1].prim = "resize"
    /\ log[1].interpolation = "INTER_CUBIC"
    /\ log[1].src = Img0
    /\ log[1].dsize = <<dstRows, dstCols>>
    /\ log[1].dst.rows = dstRows
    /\ log[1].dst.cols = dstCols
    /\ log[1].dst.ch = channels
    /\ dstWr = LogicalOffsets(dstRows, dstCols, channels, dstStride)
    /\ \A y \in 0..(dstRows - 1), x \in 0..(dstCols - 1), n \in 0..(channels - 1) :
         dst[y * dstStride + x * channels + n] = log[1].dst.px[y, x, n]
    /\ (dstRows = rows /\ dstCols = cols) =>
         \A p \in Pixels : \A n \in 0..(channels - 1) :
           dst[p[1] * dstStride + p[2] * channels + n] = Data0At(p[1], p[2], n)
    /\ \A o \in DOMAIN dst :
         o \notin LogicalOffsets(dstRows, dstCols, channels, dstStride)
           => dst[o] = dst0[o]
    /\ out = EmptyMat
    /\ data = data0
    /\ wr = {}

\* A padded source has been enlarged into a larger, unpadded destination,
\* which now holds a sample interpolated between those of the source.
C5_Witness ==
  /\ op = "bicubic_upscale_opencv"
  /\ pc = "done"
  /\ dstRows > rows
  /\ dstCols > cols
  /\ rows > 1
  /\ cols > 1
  /\ rowStride > cols * channels
  /\ dstStride = dstCols * channels
  /\ \E o \in LogicalOffsets(dstRows, dstCols, channels, dstStride) :
       dst[o] # 0 /\ \A q \in DOMAIN data0 : dst[o] # data0[q]

(***************************************************************************)
(* C6.  denoise_nlm_opencv with h = 0 on a three-channel image completes   *)
(* without error and is a near-identity: when both patch denoises return   *)
(* their input, the residual is zero everywhere and the buffer ends as the *)
(* input with channel 2 replaced by its 3x3 median.                        *)
(***************************************************************************)
NlmCallsReturnInput ==
  \A i \in 1..Len(log) :
    log[i].prim = "fastNlMeansDenoising" => log[i].dst = log[i].src

C6_ZeroStrengthNearIdentity ==
  (op = "denoise_nlm_opencv" /\ channels = 3 /\ h = 0) =>
    /\ pc # "error"
    /\ (pc = "done" /\ NlmCallsReturnInput) =>
         /\ \A y \in 0..(sub_res.rows - 1), x \in 0..(sub_res.cols - 1), n \in 0..2 :
              sub_res.px[y, x, n] = 0
         /\ \A p \in Pixels :
              /\ DataAt(p[1], p[2], 0) = Data0At(p[1], p[2], 0)
              /\ DataAt(p[1], p[2], 1) = Data0At(p[1], p[2], 1)
              /\ DataAt(p[1], p[2], 2) =
                   MedianBlur(ExtractChannel(Img0, 2), 3).px[p[1], p[2], 0]

(***************************************************************************)
(* C7.  The residual of the low-frequency step keeps the difference: each  *)
(* sample of sub_res is the sample of sub minus the sample of sub_dn,      *)
(* whatever two 16-bit values those are.  The block pattern at the strong  *)
(* strength leaves a sample of sub more than S16Max above its denoise.     *)
(***************************************************************************)
C7_ResidualExact ==
  (op = "denoise_nlm_opencv" /\ sub_res # EmptyMat) =>
    \A y \in 0..(sub_res.rows - 1), x \in 0..(sub_res.cols - 1),
       n \in 0..(sub_res.ch - 1) :
      sub_res.px[y, x, n] = sub.px[y, x, n] - sub_dn.px[y, x, n]

(***************************************************************************)
(* C8.  denoise_quattro_highres_opencv makes one patch-denoise call and    *)
(* nothing else before the copy-back: on the input, with strengths         *)
(* {0, h, 2h} for three channels and h for one, windows 3 and 11, L1; no   *)
(* median, resize or subtraction.  For one channel it and                  *)
(* denoise_nlm_opencv leave the same buffer: the copy-back of the one      *)
(* denoise of the input with strength h.  Strengths are in eighths.        *)
(***************************************************************************)
C8_SinglePassQuattro ==
  /\ op = "denoise_quattro_highres_opencv" =>
       /\ Len(log) <= 2
       /\ Len(log) >= 1 =>
            /\ log[1].prim = "fastNlMeansDenoising"
            /\ log[1].src = Img0
            /\ log[1].h = (IF channels = 3 THEN <<0, 8 * h, 16 * h>> ELSE <<8 * h>>)
            /\ log[1].templateWindowSize = 3
            /\ log[1].searchWindowSize = 11
            /\ log[1].normType = "NORM_L1"
       /\ Len(log) < 2 => data = data0 /\ pc # "done"
       /\ Len(log) = 2 =>
            /\ log[2].prim = "memcpy"
            /\ log[2].src = log[1].dst
            /\ pc = "done"
            /\ \A p \in Pixels : \A n \in 0..(channels - 1) :
                 DataAt(p[1], p[2], n) = log[1].dst.px[p[1], p[2], n]
       /\ sub = EmptyMat /\ sub_dn = EmptyMat /\ sub_res = EmptyMat /\ res = EmptyMat
  /\ (op \in Denoisers /\ channels = 1 /\ pc = "done") =>
       /\ Len(log) = 2
       /\ log[1].prim = "fastNlMeansDenoising"
       /\ log[1].src = Img0
       /\ log[1].h = <<8 * h>>
       /\ log[1].templateWindowSize = 3
       /\ log[1].searchWindowSize = 11
       /\ log[1].normType = "NORM_L1"
       /\ log[1].dst = FastNlMeansDenoising(Img0, <<8 * h>>, 3, 11)
       /\ log[2].prim = "memcpy"
       /\ data = CopyBack(data0, log[1].dst, rows, cols, rowStride)

\* A three-channel image has been through the high-resolution pipeline with
\* a non-zero strength, and channel 2 has changed.
C8_Witness ==
  /\ op = "denoise_quattro_highres_opencv"
  /\ channels = 3
  /\ h > 0
  /\ pc = "done"
  /\ Len(log) = 2
  /\ \E p \in Pixels : DataAt(p[1], p[2], 2) # Data0At(p[1], p[2], 2)

(***************************************************************************)
(* C9.  denoise_nlm_opencv has no failure mode on a valid three-channel    *)
(* view, images of fewer than four pixels in a dimension included: it      *)
(* never ends in an error, and once the area shrink has been called the    *)
(* small image is not empty.                                               *)
(***************************************************************************)
C9_NeverFails ==
  (op = "denoise_nlm_opencv" /\ channels = 3) =>
    /\ pc # "error"
    /\ Len(log) >= 5 => ~IsEmpty(log[5].dst)

(***************************************************************************)
(* C10.  Channel 0 passes through both denoise pipelines untouched, taking *)
(* a channel of zero strength to come out of the patch denoise as it went  *)
(* in: for a three-channel image and any h, when every patch-denoise call  *)
(* made returned channel 0 unchanged, the median step leaves channel 0     *)
(* alone, the residual of channel 0 is zero before and after the           *)
(* enlargement, and every channel-0 sample of the buffer equals the input  *)
(* sample.                                                                 *)
(***************************************************************************)
ZeroStrengthUnchanged ==
  \A i \in 1..Len(log) :
    log[i].prim = "fastNlMeansDenoising" =>
      /\ log[i].h[1] = 0
      /\ ExtractChannel(log[i].dst, 0) = ExtractChannel(log[i].src, 0)

AllZero(m, n) ==
  \A y \in 0..(m.rows - 1), x \in 0..(m.cols - 1) : m.px[y, x, n] = 0

C10_LumaPassesThrough ==
  (op \in Denoisers /\ channels = 3) =>
    /\ \A i \in 1..Len(log) :
         log[i].prim = "fastNlMeansDenoising" => log[i].h[1] = 0
    /\ ZeroStrengthUnchanged =>
         /\ out # EmptyMat => ExtractChannel(out, 0) = ExtractChannel(Img0, 0)
         /\ sub_res # EmptyMat => AllZero(sub_res, 0)
         /\ res # EmptyMat => AllZero(res, 0)
         /\ \A p \in Pixels : DataAt(p[1], p[2], 0) = Data0At(p[1], p[2], 0)

\* A full band-split run with a non-zero strength in which both patch
\* denoises returned channel 0 unchanged and the other channels moved, the
\* residual included.
C10_Witness ==
  /\ op = "denoise_nlm_opencv"
  /\ channels = 3
  /\ h > 0
  /\ pc = "done"
  /\ Len(log) = 10
  /\ ZeroStrengthUnchanged
  /\ ~AllZero(res, 2)
  /\ data # data0

====
